---- MODULE Spec2Model ----
(***************************************************************************)
(* Model of weekly_ml.generate_schedule (src/weekly_ml.py): the weekly     *)
(* study-schedule generator.  One run of the function is one behaviour:    *)
(* the inputs are chosen in Init, then the four sections of the function   *)
(* are taken in order, the placement loop one block per step.              *)
(*                                                                         *)
(* Encodings.                                                              *)
(*  - Real-valued inputs (daily_study_hours, total_hours) are counted in   *)
(*    half hours: the value 5 stands for 2.5 hours.                        *)
(*  - A text such as "09:00" is a sequence of characters; a character is   *)
(*    a digit 0..9, Colon, or Letter (any other character).  Their order   *)
(*    is the order of the characters in ASCII ('0' < ... < '9' < ':').     *)
(*  - A value read from a JSON object is a record [kind, v]; kind is       *)
(*    "absent" (key missing), "null", "str" (a text that is no number) or  *)
(*    "num".                                                               *)
(***************************************************************************)
EXTENDS Integers, Sequences, FiniteSets, TLC

VARIABLES settings, subjects,
          pc, ret,
          max_daily_hours, start_hour, start_minute, study_days,
          study_blocks, schedule, daily_hours_spent, day_cycle, day_idx,
          block_idx, warnings, final_schedule

vars == <<settings, subjects, pc, ret, max_daily_hours, start_hour,
          start_minute, study_days, study_blocks, schedule,
          daily_hours_spent, day_cycle, day_idx, block_idx, warnings,
          final_schedule>>

-----------------------------------------------------------------------------
(* Bounds of the input space *)

MaxDays == 2
MaxCapHalves == 5
MaxSubjects == 3

-----------------------------------------------------------------------------
(* Characters and texts *)

Colon == 10
Letter == 11

Absent == "<absent>"

AbsentVal == [kind |-> "absent", v |-> 0]
NullVal == [kind |-> "null", v |-> 0]
BadStr == [kind |-> "str", v |-> 0]
Num(h) == [kind |-> "num", v |-> h]

IsDigit(c) == c \in 0..9

RECURSIVE DigitsValue(_)
DigitsValue(s) ==
    IF s = <<>> THEN 0
    ELSE 10 * DigitsValue(SubSeq(s, 1, Len(s) - 1)) + s[Len(s)]

(* int(text): a non-empty run of digits has a value, anything else raises *)
(* ValueError.                                                             *)
PyIntOk(s) == s # <<>> /\ \A k \in 1..Len(s) : IsDigit(s[k])
PyInt(s) == DigitsValue(s)

(* text.split(':') *)
RECURSIVE Split(_)
Split(s) ==
    IF \A k \in 1..Len(s) : s[k] # Colon THEN <<s>>
    ELSE LET p == CHOOSE k \in 1..Len(s) :
                     s[k] = Colon /\ \A j \in 1..(k - 1) : s[j] # Colon
         IN <<SubSeq(s, 1, p - 1)>> \o Split(SubSeq(s, p + 1, Len(s)))

RECURSIVE Digits(_)
Digits(n) == IF n < 10 THEN <<n>> ELSE Digits(n \div 10) \o <<n % 10>>

(* f"{n:02d}" for n >= 0 *)
Pad2(n) == IF n < 10 THEN <<0, n>> ELSE Digits(n)

format_time(h, m) == Pad2(h) \o <<Colon>> \o Pad2(m)

(* the order of Python's str comparison *)
RECURSIVE StrLess(_, _)
StrLess(a, b) ==
    IF b = <<>> THEN FALSE
    ELSE IF a = <<>> THEN TRUE
    ELSE IF a[1] # b[1] THEN a[1] < b[1]
    ELSE StrLess(Tail(a), Tail(b))

(* int(text.split(':')[0]) *)
HourOf(t) == PyInt(Split(t)[1])

(* float(x): a number converts; a non-numeric text raises ValueError and  *)
(* None raises TypeError, both caught by the callers' except clauses.      *)
FloatOk(x) == x.kind = "num"

(* int(round(x)) on a value counted in half hours: ties go to the even    *)
(* integer.                                                                *)
PyRound(halves) ==
    LET q == halves \div 2
    IN IF halves % 2 = 0 THEN q
       ELSE IF q % 2 = 0 THEN q ELSE q + 1

(* dict.get(key, default) *)
Get(x, default) == IF x.kind = "absent" THEN default ELSE x
GetStr(x, default) == IF x = Absent THEN default ELSE x

-----------------------------------------------------------------------------
(* Weekdays *)

Weekdays == {"monday", "tuesday", "wednesday", "thursday", "friday",
             "saturday", "sunday"}

DefaultStudyDays == <<"mon", "tue", "wed", "thu", "fri">>

FullKeys == <<"monday", "Tuesday", "sunday", "wednesday">>
DayKeys == {"monday", "Tuesday", "mon", "tue"}

(* str.lower() on the day names of the model *)
Lower(d) == IF d = "Tuesday" THEN "tuesday" ELSE d

(* the weekday a day name of the caller stands for *)
WeekdayOf(d) ==
    CASE Lower(d) = "mon" -> "monday"
      [] Lower(d) = "tue" -> "tuesday"
      [] Lower(d) = "wed" -> "wednesday"
      [] Lower(d) = "thu" -> "thursday"
      [] Lower(d) = "fri" -> "friday"
      [] OTHER -> Lower(d)

CycleNames == {Lower(d) : d \in DayKeys}
                 \cup {DefaultStudyDays[k] : k \in 1..Len(DefaultStudyDays)}
                 \cup {Lower(FullKeys[k]) : k \in 1..Len(FullKeys)}

-----------------------------------------------------------------------------
(* Inputs *)

Text0900 == <<0, 9, Colon, 0, 0>>
Text2230 == <<2, 2, Colon, 3, 0>>

StartTimeInputs ==
    { [kind |-> "absent", s |-> <<>>],
      [kind |-> "null", s |-> <<>>],
      [kind |-> "str", s |-> Text0900],
      [kind |-> "str", s |-> Text2230],
      [kind |-> "str", s |-> <<9>>],
      [kind |-> "str", s |-> <<Letter, Letter, Colon, 0, 0>>] }

DailyHoursInputs ==
    {AbsentVal, NullVal, BadStr} \cup {Num(h) : h \in 1..MaxCapHalves}

(* the items of a weekday -> boolean mapping, in the mapping's order *)
ItemSeqs(n) ==
    { s \in [1..n -> [day : DayKeys, is_active : BOOLEAN]] :
        \A a, b \in 1..n : a # b => s[a].day # s[b].day }

StudyDaysInputs ==
    { [kind |-> "absent", items |-> <<>>],
      [kind |-> "list", items |-> <<[day |-> "monday", is_active |-> TRUE]>>] }
      \cup { [kind |-> "map", items |-> s] :
               s \in UNION { ItemSeqs(n) : n \in 0..MaxDays } }

Subj(n, h, d) == [subject_name |-> n, total_hours |-> h, difficulty |-> d]

(* one-hour subjects of every name and difficulty, and entries with      *)
(* fractional hours, unparsable hours, an unknown difficulty, no keys    *)
SubjectInputs ==
    { Subj(n, Num(2), d) : n \in {"Math", "Physics"},
                           d \in {"Hard", "Medium", "Easy"} }
      \cup { Subj("Math", Num(3), "Hard"),
             Subj("Math", BadStr, "Hard"),
             Subj("Physics", Num(5), "Extreme"),
             Subj(Absent, AbsentVal, Absent) }

SubjectLists ==
    UNION { [1..n -> SubjectInputs] : n \in 0..MaxSubjects }

(* the first n full day names, all marked active *)
AllActive(n) ==
    [kind |-> "map",
     items |-> [k \in 1..n |-> [day |-> FullKeys[k], is_active |-> TRUE]]]

(* settings varied over every input shape, with a few subject lists *)
InitSettings ==
    /\ settings \in [daily_study_hours : DailyHoursInputs,
                      start_time : StartTimeInputs,
                      study_days : StudyDaysInputs]
    /\ subjects \in { <<>>,
                      <<Subj("Math", Num(6), "Hard")>>,
                      <<Subj("Math", Num(20), "Hard"),
                        Subj("Physics", NullVal, "Easy"),
                        Subj("Physics", Num(1), "Easy")>> }

(* subject lists varied, with well-formed settings *)
InitSubjects ==
    /\ settings \in [daily_study_hours : {Num(MaxCapHalves - 1),
                                          Num(MaxCapHalves)},
                      start_time : {[kind |-> "str", s |-> Text0900]},
                      study_days : {AllActive(MaxDays)}]
    /\ subjects \in SubjectLists

EmptySchedule == [d \in Weekdays |-> <<>>]

Init ==
    /\ InitSettings \/ InitSubjects
    /\ pc = "sanitize"
    /\ ret = "none"
    /\ max_daily_hours = 0
    /\ start_hour = 0
    /\ start_minute = 0
    /\ study_days = <<>>
    /\ study_blocks = <<>>
    /\ schedule = EmptySchedule
    /\ daily_hours_spent = [d \in CycleNames |-> 0]
    /\ day_cycle = <<>>
    /\ day_idx = 0
    /\ block_idx = 0
    /\ warnings = 0
    /\ final_schedule = EmptySchedule

-----------------------------------------------------------------------------
(* 1. Sanitize and prepare inputs *)

DefaultDailyHalves == 2 * 8

(* line 20: float(settings.get("daily_study_hours", 8)) *)
DailyHoursValue == Get(settings.daily_study_hours, Num(DefaultDailyHalves))

(* line 21: settings.get("start_time", "09:00") *)
StartTimeValue ==
    IF settings.start_time.kind = "absent"
    THEN [kind |-> "str", s |-> Text0900]
    ELSE settings.start_time

StartTimeParts == Split(StartTimeValue.s)

(* map(int, ...) unpacked into exactly two names *)
StartTimeOk ==
    /\ Len(StartTimeParts) = 2
    /\ PyIntOk(StartTimeParts[1])
    /\ PyIntOk(StartTimeParts[2])

(* every key of the mapping, whatever its value *)
ActiveDaysAll(items) == [k \in 1..Len(items) |-> items[k].day]

(* line 23: the days whose value is true, in the mapping's order *)
ActiveDays(items) ==
    LET act == SelectSeq(items, LAMBDA it : it.is_active)
    IN [k \in 1..Len(act) |-> act[k].day]

(* How the try block of lines 19-26 ends: "ok", "except" (ValueError or  *)
(* TypeError, caught) or "AttributeError" (not caught).                   *)
SanitizeOutcome ==
    IF ~FloatOk(DailyHoursValue) THEN "except"
    ELSE IF StartTimeValue.kind = "null" THEN "AttributeError"
    ELSE IF ~StartTimeOk THEN "except"
    ELSE IF settings.study_days.kind = "list" THEN "AttributeError"
    ELSE "ok"

SanitizedDays ==
    IF SanitizeOutcome = "ok" THEN ActiveDays(settings.study_days.items)
    ELSE DefaultStudyDays

Sanitize ==
    /\ pc = "sanitize"
    /\ IF SanitizeOutcome = "AttributeError"
       THEN /\ pc' = "done"
            /\ ret' = "AttributeError"
            /\ UNCHANGED <<max_daily_hours, start_hour, start_minute,
                           study_days>>
       ELSE /\ max_daily_hours' = IF SanitizeOutcome = "ok"
                                   THEN DailyHoursValue.v
                                   ELSE DefaultDailyHalves
            /\ start_hour' = IF SanitizeOutcome = "ok"
                              THEN PyInt(StartTimeParts[1]) ELSE 9
            /\ start_minute' = IF SanitizeOutcome = "ok"
                                THEN PyInt(StartTimeParts[2]) ELSE 0
            /\ study_days' = SanitizedDays
            /\ IF SanitizedDays = <<>>
               THEN pc' = "done" /\ ret' = "error"
               ELSE pc' = "blocks" /\ ret' = ret
    /\ UNCHANGED <<settings, subjects, study_blocks, schedule,
                   daily_hours_spent, day_cycle, day_idx, block_idx,
                   warnings, final_schedule>>

-----------------------------------------------------------------------------
(* 2. Create prioritized 1-hour study blocks *)

difficulty_order(d) ==
    CASE d = "Hard" -> 3
      [] d = "Medium" -> 2
      [] d = "Easy" -> 1
      [] OTHER -> 2

(* the hours of a subject, or -1 when the entry is skipped *)
SubjectHours(subject) ==
    LET h == Get(subject.total_hours, Num(2))
    IN IF FloatOk(h) THEN PyRound(h.v) ELSE -1

NewBlock(subject) ==
    [subject |-> GetStr(subject.subject_name, "Unnamed"),
     difficulty |-> GetStr(subject.difficulty, "Medium"),
     priority |-> difficulty_order(GetStr(subject.difficulty, "Medium")),
     start_time |-> <<>>,
     end_time |-> <<>>,
     id |-> 0]

(* lines 34-45: the blocks in creation order; id is the identity of the  *)
(* block object (its position in creation order).                         *)
RECURSIVE ExpandBlocks(_, _)
ExpandBlocks(subs, made) ==
    IF subs = <<>> THEN <<>>
    ELSE LET hours == SubjectHours(Head(subs))
             n == IF hours > 0 THEN hours ELSE 0
             mine == [k \in 1..n |->
                        [NewBlock(Head(subs)) EXCEPT !.id = made + k]]
         IN mine \o ExpandBlocks(Tail(subs), made + n)

(* the sort without reverse = True *)
RECURSIVE InsertAscending(_, _)
InsertAscending(sorted, b) ==
    IF sorted = <<>> THEN <<b>>
    ELSE IF sorted[Len(sorted)].priority <= b.priority
         THEN Append(sorted, b)
         ELSE Append(InsertAscending(SubSeq(sorted, 1, Len(sorted) - 1), b),
                     sorted[Len(sorted)])

(* list.sort(key = priority, reverse = True): stable *)
RECURSIVE InsertByPriority(_, _)
InsertByPriority(sorted, b) ==
    IF sorted = <<>> THEN <<b>>
    ELSE IF sorted[Len(sorted)].priority >= b.priority
         THEN Append(sorted, b)
         ELSE Append(InsertByPriority(SubSeq(sorted, 1, Len(sorted) - 1), b),
                     sorted[Len(sorted)])

(* the blocks left in creation order *)
Unsorted(bs) == bs

RECURSIVE SortByPriority(_)
SortByPriority(bs) ==
    IF bs = <<>> THEN <<>>
    ELSE InsertByPriority(SortByPriority(SubSeq(bs, 1, Len(bs) - 1)),
                          bs[Len(bs)])

CreateBlocks ==
    /\ pc = "blocks"
    /\ study_blocks' = SortByPriority(ExpandBlocks(subjects, 0))
    /\ day_cycle' = [k \in 1..Len(study_days) |-> Lower(study_days[k])]
    /\ day_idx' = 0
    /\ block_idx' = 1
    /\ pc' = IF study_blocks' = <<>> THEN "consolidate" ELSE "place"
    /\ UNCHANGED <<settings, subjects, ret, max_daily_hours, start_hour,
                   start_minute, study_days, schedule, daily_hours_spent,
                   warnings, final_schedule>>

-----------------------------------------------------------------------------
(* 3. Distribute blocks into the schedule *)

(* room only while a further hour stays strictly below the limit *)
HasRoomStrict(spent, limit) == 2 * (spent + 1) < limit

(* line 63: daily_hours_spent[current_day] < max_daily_hours, the limit   *)
(* counted in half hours                                                   *)
HasRoom(spent, limit) == 2 * spent < limit

(* line 72: the cursor moves one day on, cyclically *)
NextDayIdx(idx, n) == (idx + 1) % n

(* the cursor left on the day just filled *)
StayOnDay(idx, n) == idx

(* line 78: after every block the cursor moves one day on *)
AfterBlockIdx(idx, n) == (idx + 1) % n

RECURSIVE Advance(_, _, _)
Advance(idx, n, steps) ==
    IF steps = 0 THEN idx ELSE Advance(NextDayIdx(idx, n), n, steps - 1)

(* the day the cursor is on after k failed probes *)
ProbeDay(k) == day_cycle[Advance(day_idx, Len(day_cycle), k) + 1]

(* the probes of the inner loop (line 61) that find room *)
RoomProbes ==
    { k \in 0..(Len(day_cycle) - 1) :
        HasRoom(daily_hours_spent[ProbeDay(k)], max_daily_hours) }

FirstRoomProbe == CHOOSE k \in RoomProbes : \A j \in RoomProbes : k <= j

(* lines 64-66: the block with its one-hour slot *)
Slotted(block, day) ==
    [block EXCEPT
       !.start_time = format_time(start_hour + daily_hours_spent[day],
                                  start_minute),
       !.end_time = format_time(start_hour + daily_hours_spent[day] + 1,
                                start_minute)]

(* line 68: the day whose list receives a block found room on day *)
TargetDay(day) == day

(* One iteration of the loop of line 59.  schedule has the seven weekday  *)
(* keys only: appending under any other key raises KeyError.              *)
PlaceBlock ==
    /\ pc = "place"
    /\ LET n == Len(day_cycle)
           block == study_blocks[block_idx]
           last == block_idx = Len(study_blocks)
       IN IF RoomProbes = {}
          THEN (* not placed: the warning of line 75 *)
               /\ warnings' = warnings + 1
               /\ day_idx' = AfterBlockIdx(Advance(day_idx, n, n), n)
               /\ block_idx' = block_idx + 1
               /\ pc' = IF last THEN "consolidate" ELSE "place"
               /\ UNCHANGED <<study_blocks, schedule, daily_hours_spent,
                              ret>>
          ELSE LET day == ProbeDay(FirstRoomProbe)
                   placed == Slotted(block, day)
               IN /\ study_blocks' =
                         [study_blocks EXCEPT ![block_idx] = placed]
                  /\ IF TargetDay(day) \in Weekdays
                     THEN /\ schedule' =
                                [schedule EXCEPT ![TargetDay(day)] =
                                    Append(@, placed)]
                          /\ daily_hours_spent' =
                                [daily_hours_spent EXCEPT ![day] = @ + 1]
                          /\ day_idx' =
                                AfterBlockIdx(Advance(day_idx, n,
                                                      FirstRoomProbe), n)
                          /\ block_idx' = block_idx + 1
                          /\ pc' = IF last THEN "consolidate" ELSE "place"
                          /\ ret' = ret
                     ELSE /\ pc' = "done"
                          /\ ret' = "KeyError"
                          /\ day_idx' = Advance(day_idx, n, FirstRoomProbe)
                          /\ UNCHANGED <<schedule, daily_hours_spent,
                                         block_idx>>
                  /\ UNCHANGED warnings
    /\ UNCHANGED <<settings, subjects, max_daily_hours, start_hour,
                   start_minute, study_days, day_cycle, final_schedule>>

-----------------------------------------------------------------------------
(* 4. Consolidate consecutive blocks *)

(* sessions.sort(key = start_time): stable, in the order of the texts *)
RECURSIVE InsertByStart(_, _)
InsertByStart(sorted, b) ==
    IF sorted = <<>> THEN <<b>>
    ELSE IF ~StrLess(b.start_time, sorted[Len(sorted)].start_time)
         THEN Append(sorted, b)
         ELSE Append(InsertByStart(SubSeq(sorted, 1, Len(sorted) - 1), b),
                     sorted[Len(sorted)])

RECURSIVE SortByStart(_)
SortByStart(ss) ==
    IF ss = <<>> THEN <<>>
    ELSE InsertByStart(SortByStart(SubSeq(ss, 1, Len(ss) - 1)), ss[Len(ss)])

(* lines 97-99 *)
Mergeable(current_session, next_session) ==
    /\ next_session.subject = current_session.subject
    /\ next_session.difficulty = current_session.difficulty
    /\ next_session.start_time = current_session.end_time

(* lines 104-107 and 112-115: duration_hs is the text of                  *)
(* float(end_h - start_h) followed by "h"; the model keeps the number.    *)
Finalize(current_session) ==
    [subject |-> current_session.subject,
     difficulty |-> current_session.difficulty,
     priority |-> current_session.priority,
     start_time |-> current_session.start_time,
     end_time |-> current_session.end_time,
     duration_hs |-> HourOf(current_session.end_time)
                       - HourOf(current_session.start_time)]

(* a merge that closes the session after one extension *)
RECURSIVE MergePairs(_, _)
MergePairs(current_session, rest) ==
    IF rest = <<>> THEN <<Finalize(current_session)>>
    ELSE IF Mergeable(current_session, Head(rest))
         THEN <<Finalize([current_session EXCEPT
                            !.end_time = Head(rest).end_time])>>
                \o (IF Tail(rest) = <<>> THEN <<>>
                    ELSE MergePairs(Head(Tail(rest)), Tail(Tail(rest))))
         ELSE <<Finalize(current_session)>>
                \o MergePairs(Head(rest), Tail(rest))

(* the loop of lines 95-109 over the rest of the sorted sessions *)
RECURSIVE MergeRun(_, _)
MergeRun(current_session, rest) ==
    IF rest = <<>> THEN <<Finalize(current_session)>>
    ELSE IF Mergeable(current_session, Head(rest))
         THEN MergeRun([current_session EXCEPT
                          !.end_time = Head(rest).end_time], Tail(rest))
         ELSE <<Finalize(current_session)>> \o MergeRun(Head(rest), Tail(rest))

ConsolidateDay(sessions) ==
    IF sessions = <<>> THEN <<>>
    ELSE LET sorted == SortByStart(sessions)
         IN MergeRun(Head(sorted), Tail(sorted))

Consolidate ==
    /\ pc = "consolidate"
    /\ final_schedule' = [d \in Weekdays |-> ConsolidateDay(schedule[d])]
    /\ ret' = "schedule"
    /\ pc' = "done"
    /\ UNCHANGED <<settings, subjects, max_daily_hours, start_hour,
                   start_minute, study_days, study_blocks, schedule,
                   daily_hours_spent, day_cycle, day_idx, block_idx,
                   warnings>>

-----------------------------------------------------------------------------

Next == Sanitize \/ CreateBlocks \/ PlaceBlock \/ Consolidate

Spec == Init /\ [][Next]_vars

TypeOK ==
    /\ pc \in {"sanitize", "blocks", "place", "consolidate", "done"}
    /\ ret \in {"none", "error", "schedule", "KeyError", "AttributeError"}
    /\ day_idx \in 0..5
    /\ warnings \in Nat

-----------------------------------------------------------------------------
(* What the caller asked for, read from the inputs alone *)

WeekdaySeq == <<"monday", "tuesday", "wednesday", "thursday", "friday",
                "saturday", "sunday">>

CallerItems ==
    IF settings.study_days.kind = "map" THEN settings.study_days.items
    ELSE <<>>

CallerActiveCount ==
    Cardinality({k \in 1..Len(CallerItems) : CallerItems[k].is_active})

CallerActiveWeekdays ==
    { WeekdayOf(CallerItems[k].day) :
        k \in {j \in 1..Len(CallerItems) : CallerItems[j].is_active} }

(* the daily capacity in half hours: the caller's, or the default 8 hours *)
CallerCapHalves ==
    IF settings.daily_study_hours.kind = "num"
    THEN settings.daily_study_hours.v
    ELSE 16

StartTimeGiven == settings.start_time.kind = "str"
StartTimeWellFormed ==
    /\ StartTimeGiven
    /\ Len(Split(settings.start_time.s)) = 2
    /\ \A k \in 1..2 : PyIntOk(Split(settings.start_time.s)[k])

NameOf(subject) ==
    IF subject.subject_name = Absent THEN "Unnamed" ELSE subject.subject_name

(* a subject's total_hours rounded to a whole number; nothing for an     *)
(* entry whose hours cannot be parsed                                     *)
RoundedHours(subject) ==
    IF subject.total_hours.kind = "absent" THEN 1
    ELSE IF subject.total_hours.kind = "num"
         THEN PyRound(subject.total_hours.v)
         ELSE 0

RECURSIVE DemandFrom(_, _)
DemandFrom(name, k) ==
    IF k = 0 THEN 0
    ELSE DemandFrom(name, k - 1)
           + (IF name = "*" \/ NameOf(subjects[k]) = name
              THEN RoundedHours(subjects[k]) ELSE 0)

Demand(name) == DemandFrom(name, Len(subjects))
TotalDemand == DemandFrom("*", Len(subjects))

RECURSIVE SumDuration(_, _)
SumDuration(sessions, name) ==
    IF sessions = <<>> THEN 0
    ELSE (IF name = "*" \/ Head(sessions).subject = name
          THEN Head(sessions).duration_hs ELSE 0)
           + SumDuration(Tail(sessions), name)

RECURSIVE ScheduledFrom(_, _)
ScheduledFrom(name, k) ==
    IF k = 0 THEN 0
    ELSE ScheduledFrom(name, k - 1)
           + SumDuration(final_schedule[WeekdaySeq[k]], name)

Scheduled(name) == ScheduledFrom(name, Len(WeekdaySeq))

DayHours(d) == SumDuration(final_schedule[d], "*")

Returned == pc = "done" /\ ret = "schedule"

Unplaced ==
    Cardinality({k \in 1..Len(study_blocks) :
                   study_blocks[k].start_time = <<>>})

Placed ==
    UNION { { <<d, i>> : i \in 1..Len(schedule[d]) } : d \in Weekdays }

-----------------------------------------------------------------------------
(* C1: on every day the hours placed so far, and the durations of the    *)
(* returned sessions, never exceed the daily capacity, also for a        *)
(* capacity that is no whole number of hours.                            *)
C1_DailyCapacity ==
    \A d \in Weekdays :
        /\ 2 * Len(schedule[d]) <= CallerCapHalves
        /\ Returned => 2 * DayHours(d) <= CallerCapHalves

-----------------------------------------------------------------------------
(* C2: in the returned schedule each subject holds at most its rounded   *)
(* hours, and exactly those when the weekly capacity covers the total    *)
(* demand; no block object is in the schedule twice.                     *)
C2_SubjectHours ==
    /\ Returned =>
         \A k \in 1..Len(subjects) :
            LET name == NameOf(subjects[k])
            IN /\ Scheduled(name) <= Demand(name)
               /\ CallerActiveCount * CallerCapHalves >= 2 * TotalDemand
                    => Scheduled(name) = Demand(name)
    /\ \A p, q \in Placed :
          p # q => schedule[p[1]][p[2]].id # schedule[q[1]][q[2]].id

(* a returned schedule that covers the demand of two subjects over two   *)
(* days, one subject taking several hours                                *)
C2_Witness ==
    /\ Returned
    /\ CallerActiveCount * CallerCapHalves >= 2 * TotalDemand
    /\ \E k \in 1..Len(subjects) : Scheduled(NameOf(subjects[k])) >= 2
    /\ \E j, k \in 1..Len(subjects) :
          /\ NameOf(subjects[j]) # NameOf(subjects[k])
          /\ Scheduled(NameOf(subjects[j])) > 0
          /\ Scheduled(NameOf(subjects[k])) > 0
    /\ Cardinality({d \in Weekdays : final_schedule[d] # <<>>}) >= 2

-----------------------------------------------------------------------------
(* C3: generate_schedule never raises: it ends with the error value or   *)
(* with a schedule.                                                      *)
C3_NeverRaises ==
    /\ ret \notin {"KeyError", "AttributeError"}
    /\ pc = "done" => ret \in {"error", "schedule"}

-----------------------------------------------------------------------------
(* C4: with a missing or malformed start_time, or missing or invalid     *)
(* daily_study_hours, and some day active, only the bad setting is       *)
(* replaced by its default and a schedule on the caller's days results.  *)
C4_DefaultsOnlyForBadSetting ==
    ( /\ pc = "done"
      /\ settings.study_days.kind = "map"
      /\ CallerActiveCount > 0
      /\ settings.start_time.kind # "null"
      /\ \/ ~StartTimeWellFormed
         \/ settings.daily_study_hours.kind # "num" )
    => /\ ret = "schedule"
       /\ \A d \in Weekdays :
             final_schedule[d] # <<>> => d \in CallerActiveWeekdays
       /\ max_daily_hours = CallerCapHalves
       /\ StartTimeWellFormed =>
             /\ start_hour = PyInt(Split(settings.start_time.s)[1])
             /\ start_minute = PyInt(Split(settings.start_time.s)[2])
       /\ ~StartTimeWellFormed => start_hour = 9 /\ start_minute = 0
       /\ {study_days[k] : k \in 1..Len(study_days)}
             = {CallerItems[k].day :
                  k \in {j \in 1..Len(CallerItems) : CallerItems[j].is_active}}

-----------------------------------------------------------------------------
(* C5: with no weekday marked active the result is the error value and   *)
(* no block is generated or placed.                                      *)
C5_NoDaysError ==
    ( /\ pc = "done"
      /\ settings.study_days.kind \in {"absent", "map"}
      /\ settings.start_time.kind # "null"
      /\ CallerActiveCount = 0 )
    => /\ ret = "error"
       /\ study_blocks = <<>>
       /\ schedule = EmptySchedule

-----------------------------------------------------------------------------
(* C6: the scenario of 2 daily hours from 09:00 on mon and tue with 3    *)
(* hours of Hard Math gives Monday 09:00-11:00 and Tuesday 09:00-10:00.  *)
C6_Settings ==
    [daily_study_hours |-> Num(4),
     start_time |-> [kind |-> "str", s |-> Text0900],
     study_days |-> [kind |-> "map",
                     items |-> <<[day |-> "mon", is_active |-> TRUE],
                                 [day |-> "tue", is_active |-> TRUE]>>]]

C6_Session(from, to, hours) ==
    [subject |-> "Math", difficulty |-> "Hard", priority |-> 3,
     start_time |-> from, end_time |-> to, duration_hs |-> hours]

C6_Expected ==
    [d \in Weekdays |->
        IF d = "monday"
        THEN <<C6_Session(Text0900, <<1, 1, Colon, 0, 0>>, 2)>>
        ELSE IF d = "tuesday"
        THEN <<C6_Session(Text0900, <<1, 0, Colon, 0, 0>>, 1)>>
        ELSE <<>>]

C6_Scenario ==
    ( /\ pc = "done"
      /\ settings = C6_Settings
      /\ subjects = <<Subj("Math", Num(6), "Hard")>> )
    => ret = "schedule" /\ final_schedule = C6_Expected

-----------------------------------------------------------------------------
(* C7: when the demand D exceeds n active days of C whole hours, a       *)
(* schedule is still returned, every active day holds exactly C hours,   *)
(* D - n*C blocks stay unplaced and each is reported.                    *)
C7_Shortfall ==
    ( /\ pc = "done"
      /\ settings.study_days.kind = "map"
      /\ CallerActiveCount > 0
      /\ settings.start_time.kind = "absent" \/ StartTimeWellFormed
      /\ settings.daily_study_hours.kind \in {"num", "absent"}
      /\ CallerCapHalves % 2 = 0
      /\ 2 * TotalDemand > CallerActiveCount * CallerCapHalves )
    => /\ ret = "schedule"
       /\ \A d \in CallerActiveWeekdays : 2 * DayHours(d) = CallerCapHalves
       /\ 2 * Unplaced = 2 * TotalDemand - CallerActiveCount * CallerCapHalves
       /\ warnings = Unplaced

-----------------------------------------------------------------------------
(* C8: a returned schedule has the seven weekdays, and a weekday the     *)
(* caller did not mark active never holds a block or a session.          *)
C8_InactiveDaysEmpty ==
    /\ \A d \in Weekdays \ CallerActiveWeekdays :
          pc # "sanitize" /\ ret # "KeyError" => schedule[d] = <<>>
    /\ Returned =>
         /\ DOMAIN final_schedule = Weekdays
         /\ \A d \in Weekdays \ CallerActiveWeekdays :
               final_schedule[d] = <<>>

(* a returned schedule with sessions, for a mapping that names a weekday *)
(* and marks it inactive                                                 *)
C8_Witness ==
    /\ Returned
    /\ \E d \in Weekdays : final_schedule[d] # <<>>
    /\ \E k \in 1..Len(CallerItems) :
          /\ ~CallerItems[k].is_active
          /\ WeekdayOf(CallerItems[k].day) \notin CallerActiveWeekdays

-----------------------------------------------------------------------------
(* The subjects of the returned schedule, told apart by name and         *)
(* difficulty, and where their sessions lie                              *)

ActiveIdx == { k \in 1..Len(day_cycle) : day_cycle[k] \in Weekdays }

SessionsOn(k) == final_schedule[day_cycle[k]]

Ranked == {"Hard", "Medium", "Easy"}
Rank(difficulty) ==
    IF difficulty = "Hard" THEN 3 ELSE IF difficulty = "Medium" THEN 2 ELSE 1

AllSlots ==
    { p \in ActiveIdx \X (1..Len(study_blocks)) :
        p[2] <= Len(SessionsOn(p[1])) }

ScheduledSubjects ==
    { <<SessionsOn(p[1])[p[2]].subject, SessionsOn(p[1])[p[2]].difficulty>> :
        p \in AllSlots }

SlotsOf(a) ==
    { p \in AllSlots :
        /\ SessionsOn(p[1])[p[2]].subject = a[1]
        /\ SessionsOn(p[1])[p[2]].difficulty = a[2] }

Min(S) == CHOOSE x \in S : \A y \in S : x <= y

(* the earliest day, by index in the active-day order, with a session *)
EarliestDay(a) == Min({ p[1] : p \in SlotsOf(a) })

(* the earliest hour at which a session starts, and the earliest day     *)
(* with a session starting at that hour                                  *)
EarliestHour(a) ==
    Min({ HourOf(SessionsOn(p[1])[p[2]].start_time) : p \in SlotsOf(a) })
EarliestDayAtHour(a) ==
    Min({ p[1] : p \in { q \in SlotsOf(a) :
             HourOf(SessionsOn(q[1])[q[2]].start_time) = EarliestHour(a) } })

Pairs ==
    { <<a, b>> \in ScheduledSubjects \X ScheduledSubjects :
        /\ a[2] \in Ranked /\ b[2] \in Ranked
        /\ Rank(a[2]) > Rank(b[2]) }

-----------------------------------------------------------------------------
(* C9 as stated: of two scheduled subjects, the one of strictly higher   *)
(* difficulty has its earliest day no later, by index in the active-day  *)
(* order, than the other's earliest day.                                 *)
C9_EarliestDayOrder ==
    Returned => \A p \in Pairs : EarliestDay(p[1]) <= EarliestDay(p[2])

(* C9 amended: of two scheduled subjects, the one of strictly higher     *)
(* difficulty has its earliest session no later in round-robin order:    *)
(* its earliest start hour is no later, and when the two hours are equal *)
(* its earliest day at that hour is no later.                            *)
C9_RoundRobinOrder ==
    Returned =>
       \A p \in Pairs :
          \/ EarliestHour(p[1]) < EarliestHour(p[2])
          \/ /\ EarliestHour(p[1]) = EarliestHour(p[2])
             /\ EarliestDayAtHour(p[1]) <= EarliestDayAtHour(p[2])

(* a returned schedule in which a subject of higher difficulty starts on *)
(* a later day than a subject of lower difficulty                        *)
C9_Witness ==
    /\ Returned
    /\ \E p \in Pairs : EarliestDay(p[1]) > EarliestDay(p[2])

-----------------------------------------------------------------------------
-----------------------------------------------------------------------------
(* C11: consolidating an already consolidated day gives the same         *)
(* sessions, and no two neighbouring sessions of a consolidated day are  *)
(* mergeable.                                                            *)
C11_ConsolidateIdempotent ==
    Returned =>
       \A d \in Weekdays :
          /\ ConsolidateDay(final_schedule[d]) = final_schedule[d]
          /\ \A i \in 1..(Len(final_schedule[d]) - 1) :
                ~Mergeable(final_schedule[d][i], final_schedule[d][i + 1])

(* a returned day of several sessions, one of them merged from several   *)
(* blocks and followed by a session that starts where it ends            *)
C11_Witness ==
    /\ Returned
    /\ \E d \in Weekdays :
          /\ Len(final_schedule[d]) >= 2
          /\ Len(schedule[d]) > Len(final_schedule[d])
          /\ \E i \in 1..(Len(final_schedule[d]) - 1) :
                /\ final_schedule[d][i].duration_hs >= 2
                /\ final_schedule[d][i + 1].start_time
                      = final_schedule[d][i].end_time

-----------------------------------------------------------------------------
(* The blocks of study_blocks that are in the schedule, by position *)
PlacedIdx ==
    LET ids == { schedule[p[1]][p[2]].id : p \in Placed }
    IN { k \in 1..Len(study_blocks) : study_blocks[k].id \in ids }

(* C12: in every state of a run the placed blocks are a prefix of the    *)
(* priority-sorted block list, and no block is placed while a block of   *)
(* strictly higher priority is not.                                      *)
C12_PlacedPrefix ==
    LET placed == PlacedIdx
    IN /\ \A k \in placed : \A j \in 1..k : j \in placed
       /\ \A k \in placed :
             \A j \in (1..Len(study_blocks)) \ placed :
                study_blocks[j].priority <= study_blocks[k].priority

(* a returned schedule that leaves blocks unplaced, all of them of lower *)
(* priority than some placed block, after subjects given in another      *)
(* order than their priority                                             *)
C12_Witness ==
    /\ Returned
    /\ warnings > 0
    /\ \E k \in PlacedIdx :
          \A j \in (1..Len(study_blocks)) \ PlacedIdx :
             study_blocks[j].priority < study_blocks[k].priority
    /\ \E a, b \in 1..Len(subjects) :
          /\ a < b
          /\ SubjectHours(subjects[a]) > 0
          /\ SubjectHours(subjects[b]) > 0
          /\ difficulty_order(GetStr(subjects[a].difficulty, "Medium"))
                < difficulty_order(GetStr(subjects[b].difficulty, "Medium"))

====
